---- MODULE Spec2Model ----
(***************************************************************************)
(* The NoiseProcessor audio worklet of WhoaNoise (src/noise-processor.js): *)
(* the double-buffered uniform source, the five noise generators, the      *)
(* block dispatcher process() and the setNoiseType message handler.        *)
(*                                                                         *)
(* Numbers.  A uniform value u of the source is the integer u * One, so    *)
(* One is 1.0 and -One is -1.0.  A sample returned by a generator is kept  *)
(* in units of 1 / (OutScale * One); OutScale = 170 makes the gains 1/17,  *)
(* 0.7, 0.5 and 3.5 of the source whole numbers, so all arithmetic but the *)
(* brown integrator's division by 1.02 is exact.                           *)
(*                                                                         *)
(* Sizes.  The source's buffer of 48000 * 30 slots is 300 refill chunks of *)
(* 4800 slots, refilled on every 10th block.  The model keeps that shape   *)
(* (bufferSize = RefillsPerBuffer * refillAmount) at a small scale.        *)
(*                                                                         *)
(* Specifications.  Spec and SpecLong run the processor block by block,    *)
(* with messages arriving on its port.  SpecGenerators applies getSample() *)
(* call by call to the generators' state.  SpecApp is the page's WhoaNoise *)
(* object (src/unnamed/part_001): the noise buttons, the media controls    *)
(* and initAudio(), posting to the processor's port.                       *)
(***************************************************************************)
EXTENDS Integers, Sequences, FiniteSets, TLC

\* ---------------------------------------------------------------- bounds
\* The first three scale the source's 300 chunks per buffer, 4800 slots per
\* refill and refill on every 10th block.
RefillsPerBuffer == 2
refillAmount == 3
RefillPeriod == 2
One == 1000
MaxChannels == 2
MaxBlockLen == 2
MaxFrames == 2
MaxPosts == 2
MaxFramesLong == 13
MaxPostsLong == 1
MaxCalls == 4
MaxSelects == 1
LongRun == 25
MaxPostsApp == 6
MaxTracks == 5

\* ------------------------------------------------------ program constants
NumRows == 16
pinkIndexMask == 65535

bufferSize == RefillsPerBuffer * refillAmount
OutScale == 17 * 10

KnownTypes == {"white", "pink", "brown", "blue", "violet"}
NoiseTypes == KnownTypes \cup {"bogus"}

\* event.data of the messages the port can carry
Messages ==
  [type : {"setNoiseType"}, noiseType : NoiseTypes]
    \cup {[type |-> "ping", noiseType |-> "pink"]}

\* The runs of outcomes of Math.random() * 2 - 1 one bufferFill call may see:
\* run r gives the value of its i-th call (i from 0).
RandomRuns ==
  << <<One, -One>>, <<-One, 0, One, One>> >>

Runs == 1..Len(RandomRuns)

random(r, i) == RandomRuns[r][(i % Len(RandomRuns[r])) + 1]

\* a / b rounded to the nearest integer, b > 0
RoundDiv(a, b) == (2 * a + b) \div (2 * b)

RECURSIVE SumSeq(_)
SumSeq(s) == IF s = <<>> THEN 0 ELSE Head(s) + SumSeq(Tail(s))

\* Number of trailing zero bits of n, counted as pink() counts them
RECURSIVE trailingZeros(_, _)
trailingZeros(n, numZeros) ==
  IF n % 2 = 0 /\ numZeros < NumRows
    THEN trailingZeros(n \div 2, numZeros + 1)
    ELSE numZeros

VARIABLES
  noiseType, bufferA, bufferB, activeBuffer, inactiveBuffer, index,
  fillPointer, frameCount,
  pinkRows, pinkRunningSum, pinkIndex, brownLast, blueLast, violetLast,
  port,        \* messages posted to the processor's port, not yet handled
  host,        \* the output shape the host renders: channels x blockLen
  output,      \* outputs[0] as the last process() call left it
  returned,    \* the value the last process() call returned
  obs,         \* observations of the run (history), see ObsInit
  app          \* the page's WhoaNoise object, see AppInit

vars ==
  << noiseType, bufferA, bufferB, activeBuffer, inactiveBuffer, index,
     fillPointer, frameCount,
     pinkRows, pinkRunningSum, pinkIndex, brownLast, blueLast, violetLast,
     port, host, output, returned, obs, app >>

\* ------------------------------------------------------------ the engine
\* The operators below take and return t, the record of the processor's
\* fields (this.*), its port, the output block, and the observations obs;
\* t.ret is the value the method returned.  A method is the composition of
\* its statements, each an operator on the record the one before it left.

Buffer(t, b) == IF b = "A" THEN t.bufferA ELSE t.bufferB
Consumed(t, b) == IF b = "A" THEN t.obs.consumedA ELSE t.obs.consumedB
Fresh(t, b) == \A j \in 1..Len(Buffer(t, b)) : ~Consumed(t, b)[j]

\* bufferFill(buffer, start, count): run r is what Math.random() yields
bufferFill(t, b, start, count, r) ==
  LET len == Len(Buffer(t, b))
      hit(j) == j - 1 >= start /\ j - 1 - start < count /\ j - 1 < len
      filled == [j \in 1..len |->
                   IF hit(j) THEN random(r, j - 1 - start) ELSE Buffer(t, b)[j]]
      fresh == [j \in 1..len |-> IF hit(j) THEN FALSE ELSE Consumed(t, b)[j]]
      wrote == {[buf |-> b, at |-> j - 1, active |-> t.activeBuffer,
                 inactive |-> t.inactiveBuffer, start |-> start,
                 used |-> Consumed(t, b)[j], swaps |-> t.obs.swaps] :
                  j \in {i \in 1..len : hit(i)}}
  IN [t EXCEPT !.bufferA = IF b = "A" THEN filled ELSE @,
               !.bufferB = IF b = "B" THEN filled ELSE @,
               !.obs.consumedA = IF b = "A" THEN fresh ELSE @,
               !.obs.consumedB = IF b = "B" THEN fresh ELSE @,
               !.obs.writes = @ \cup wrote]

\* white(), line 66: sample = this.activeBuffer[this.index++]; used tells
\* whether that slot was read before since it was written
take(t, sample, used) ==
  [t EXCEPT
     !.index = t.index + 1,
     !.ret = sample,
     !.obs.draws = @ + 1,
     !.obs.lastDraw = [buf |-> t.activeBuffer, at |-> t.index,
                       w |-> sample, stale |-> used],
     !.obs.consumedA =
        IF t.activeBuffer = "A" THEN [@ EXCEPT ![t.index + 1] = TRUE] ELSE @,
     !.obs.consumedB =
        IF t.activeBuffer = "B" THEN [@ EXCEPT ![t.index + 1] = TRUE] ELSE @,
     !.obs.staleReads = @ \/ used]

\* Faulty swap: the cursor and the refill marker are reset but the roles of
\* the two buffers stay as they were
swap_noRoles(t) ==
  [t EXCEPT !.index = 0, !.fillPointer = 0]

\* Faulty swap: the roles are exchanged without the temporary, so both end
\* as the buffer that was inactive
swap_noTemp(t) ==
  [t EXCEPT
     !.activeBuffer = t.inactiveBuffer,
     !.index = 0,
     !.fillPointer = 0,
     !.obs.swaps = @ + 1,
     !.obs.lastSwap = [marker |-> t.fillPointer,
                       ready |-> Fresh(t, t.inactiveBuffer)],
     !.obs.unready = @ \/ ~Fresh(t, t.inactiveBuffer)]

\* white(), lines 71-76: swap the roles, reset the cursor and the marker
swap(t) ==
  [t EXCEPT
     !.activeBuffer = t.inactiveBuffer,
     !.inactiveBuffer = t.activeBuffer,
     !.index = 0,
     !.fillPointer = 0,
     !.obs.swaps = @ + 1,
     !.obs.lastSwap = [marker |-> t.fillPointer,
                       ready |-> Fresh(t, t.inactiveBuffer)],
     !.obs.unready = @ \/ ~Fresh(t, t.inactiveBuffer)]

\* white(), lines 69-79
exhausted(t) ==
  IF t.index >= Len(Buffer(t, t.activeBuffer)) THEN swap(t) ELSE t

\* Faulty white(): the cursor is incremented before the slot is read
white_preIncrement(t) ==
  exhausted(take(t, Buffer(t, t.activeBuffer)[((t.index + 1) % bufferSize) + 1],
                    Consumed(t, t.activeBuffer)[t.index + 1]))

\* white(): one value from the active buffer, swapping when it is exhausted
white(t) ==
  exhausted(take(t, Buffer(t, t.activeBuffer)[t.index + 1],
                    Consumed(t, t.activeBuffer)[t.index + 1]))

\* Faulty counter: it is not masked to 16 bits
pinkCount_noMask(t) ==
  [t EXCEPT !.pinkIndex = @ + 1]

\* pink(), line 90
pinkCount(t) ==
  [t EXCEPT !.pinkIndex = (@ + 1) % (pinkIndexMask + 1)]

\* Faulty row update: the replaced row is not subtracted from the sum
pinkUpdate_noSubtract(t, numZeros, newValue) ==
  IF numZeros < NumRows
    THEN [t EXCEPT !.pinkRunningSum = @ + newValue,
                   !.pinkRows = [@ EXCEPT ![numZeros + 1] = newValue]]
    ELSE t

\* pink(), lines 101-106
pinkUpdate(t, numZeros, newValue) ==
  IF numZeros < NumRows
    THEN [t EXCEPT !.pinkRunningSum = (@ - t.pinkRows[numZeros + 1]) + newValue,
                   !.pinkRows = [@ EXCEPT ![numZeros + 1] = newValue]]
    ELSE t

\* pink(), line 109, when the term added is a second, fresh draw
pinkFresh(t) ==
  [t EXCEPT !.ret = (OutScale \div 17) * (t.pinkRunningSum + t.ret)]

pinkOut_freshDraw(t, w) == pinkFresh(white(t))

\* pink(), line 109: (this.pinkRunningSum + white) / 17
pinkOut(t, w) ==
  [t EXCEPT !.ret = (OutScale \div 17) * (t.pinkRunningSum + w)]

\* pink(), lines 92-109, t.ret being the value white() returned
pinkRow(t) ==
  pinkOut(pinkUpdate(t, trailingZeros(t.pinkIndex, 0), t.ret), t.ret)

\* Faulty pink(): the row is chosen from the counter before it is incremented
pink_countAfter(t) == pinkCount(pinkRow(white(t)))

\* pink(): Voss-McCartney, 16 rows
pink(t) == pinkRow(pinkCount(white(t)))

\* Faulty brown(): the output gain is 7 instead of 3.5
brownOut_gain7(t) ==
  [t EXCEPT !.ret = (OutScale * 7) * t.brownLast]

\* brown(), line 121
brownOut(t) ==
  [t EXCEPT !.ret = ((OutScale * 7) \div 2) * t.brownLast]

\* Faulty brown(): the draw enters the integrator unscaled, (last + w) / 1.02
brownStep_noGain(t) ==
  brownOut([t EXCEPT !.brownLast = RoundDiv(50 * (@ + t.ret), 51)])

\* brown(), line 119: (last + 0.02 w) / 1.02 = (50 last + w) / 51
brownStep(t) ==
  brownOut([t EXCEPT !.brownLast = RoundDiv(50 * @ + t.ret, 51)])

\* brown(): leaky integrator
brown(t) == brownStep(white(t))

\* Faulty blue(): the difference is returned unscaled
blueStep_unitGain(t) ==
  [t EXCEPT !.blueLast = t.ret,
            !.ret = OutScale * (t.ret - t.blueLast)]

\* blue(), lines 131-133
blueStep(t) ==
  [t EXCEPT !.blueLast = t.ret,
            !.ret = ((OutScale * 7) \div 10) * (t.ret - t.blueLast)]

\* blue(): first difference, gain 0.7
blue(t) == blueStep(white(t))

\* Faulty violet(): the second difference is returned unscaled
violetStep_unitGain(t, diff1) ==
  [t EXCEPT !.violetLast = <<t.ret, diff1>>,
            !.ret = OutScale * (diff1 - t.violetLast[2])]

\* violet(), lines 144-147
violetStep(t, diff1) ==
  [t EXCEPT !.violetLast = <<t.ret, diff1>>,
            !.ret = (OutScale \div 2) * (diff1 - t.violetLast[2])]

\* violet(), line 143, t.ret being the value white() returned
violetDiff(t) == violetStep(t, t.ret - t.violetLast[1])

\* violet(): second difference, gain 0.5
violet(t) == violetDiff(white(t))

\* the sample white() returns, in the unit of the generators' outputs
plainOut(t) == [t EXCEPT !.ret = OutScale * t.ret]

plain(t) == plainOut(white(t))

\* Faulty handler: it does not look at the type of the message
onmessage_anyType(t, data) ==
  [t EXCEPT !.noiseType = data.noiseType, !.obs.applied = @ + 1]

\* this.port.onmessage, for an event whose data is data
onmessage(t, data) ==
  IF data.type = "setNoiseType"
    THEN [t EXCEPT !.noiseType = data.noiseType, !.obs.applied = @ + 1]
    ELSE t

\* Faulty switch: the default case falls to pink() instead of white()
dispatch_defaultPink(t) ==
  CASE t.noiseType = "pink" -> pink(t)
    [] t.noiseType = "brown" -> brown(t)
    [] t.noiseType = "blue" -> blue(t)
    [] t.noiseType = "violet" -> violet(t)
    [] t.noiseType = "white" -> plain(t)
    [] OTHER -> pink(t)

\* getSample(): the switch on this.noiseType
dispatch(t) ==
  CASE t.noiseType = "pink" -> pink(t)
    [] t.noiseType = "brown" -> brown(t)
    [] t.noiseType = "blue" -> blue(t)
    [] t.noiseType = "violet" -> violet(t)
    [] OTHER -> plain(t)

\* obs.calls records the getSample() call that took t to r
logCall(t, r) ==
  [r EXCEPT !.obs.calls =
     Append(@, [kind |-> t.noiseType,
                n |-> r.obs.draws - t.obs.draws,
                ord |-> r.obs.draws,
                buf |-> r.obs.lastDraw.buf,
                at |-> r.obs.lastDraw.at,
                w |-> r.obs.lastDraw.w,
                stale |-> r.obs.lastDraw.stale,
                after |-> r.index,
                sample |-> r.ret])]

\* A pending message is handled before the sample, unless the block begins
yield(t) ==
  IF t.port # <<>> /\ t.obs.calls # <<>>
    THEN [onmessage(t, Head(t.port).data) EXCEPT !.port = Tail(t.port)]
    ELSE t

logYield(t) == logCall(t, dispatch(t))

\* Faulty getSample(): a pending message is handled between two samples of
\* a block, as if the handler could interrupt process()
getSample_yield(t) == logYield(yield(t))

getSample(t) == logCall(t, dispatch(t))

\* process(), line 181: outputChannel[i] = sample, for slot k of the block
\* (from 0, channel after channel)
store(t, k, blockLen) ==
  [t EXCEPT !.output[(k \div blockLen) + 1][(k % blockLen) + 1] =
              [written |-> TRUE, v |-> t.ret]]

\* the sample is stored at position k of every channel
storeAll(t, k, channels) ==
  [t EXCEPT !.output =
     [c \in 1..channels |->
        [@[c] EXCEPT ![k + 1] = [written |-> TRUE, v |-> t.ret]]]]

\* A render loop that generates one sample per position and copies it to
\* every channel
RECURSIVE render_mono(_, _, _, _)
render_mono(t, k, channels, blockLen) ==
  IF k >= blockLen
    THEN t
    ELSE render_mono(storeAll(getSample(t), k, channels),
                     k + 1, channels, blockLen)

\* Faulty render loop: it stops one slot short of the end of the block
RECURSIVE render_skipLast(_, _, _, _)
render_skipLast(t, k, channels, blockLen) ==
  IF k >= channels * blockLen - 1
    THEN t
    ELSE render_skipLast(store(getSample(t), k, blockLen),
                         k + 1, channels, blockLen)

\* The two loops of process(), lines 176-183: slot k (from 0) of the block,
\* channel after channel, each slot from its own getSample() call
RECURSIVE render(_, _, _, _)
render(t, k, channels, blockLen) ==
  IF k >= channels * blockLen
    THEN t
    ELSE render(store(getSample(t), k, blockLen), k + 1, channels, blockLen)

\* process() is called with a block of channels x blockLen slots to fill
begin(t, channels, blockLen) ==
  [t EXCEPT !.output = [c \in 1..channels |->
                          [i \in 1..blockLen |-> [written |-> FALSE, v |-> 0]]],
            !.returned = FALSE,
            !.obs.calls = <<>>,
            !.obs.writes = {},
            !.obs.applied = 0,
            !.obs.pending = t.port]

\* process(), line 187
count(t) == [t EXCEPT !.frameCount = @ + 1]

\* Faulty refill: it goes to the active buffer
refill_active(t, r) ==
  IF t.frameCount % RefillPeriod = 0 /\ t.fillPointer < bufferSize
    THEN [bufferFill(t, t.activeBuffer, t.fillPointer, refillAmount, r)
            EXCEPT !.fillPointer = @ + refillAmount]
    ELSE t

\* Faulty refill: it happens half as often
refill_slow(t, r) ==
  IF t.frameCount % (2 * RefillPeriod) = 0 /\ t.fillPointer < bufferSize
    THEN [bufferFill(t, t.inactiveBuffer, t.fillPointer, refillAmount, r)
            EXCEPT !.fillPointer = @ + refillAmount]
    ELSE t

\* Faulty refill: it does not stop when the marker has reached the capacity
refill_noStop(t, r) ==
  IF t.frameCount % RefillPeriod = 0
    THEN [bufferFill(t, t.inactiveBuffer, t.fillPointer, refillAmount, r)
            EXCEPT !.fillPointer = @ + refillAmount]
    ELSE t

\* process(), lines 188-192; r is what Math.random() yields
refill(t, r) ==
  IF t.frameCount % RefillPeriod = 0 /\ t.fillPointer < bufferSize
    THEN [bufferFill(t, t.inactiveBuffer, t.fillPointer, refillAmount, r)
            EXCEPT !.fillPointer = @ + refillAmount]
    ELSE t

\* process(), line 195
returnTrue(t) == [t EXCEPT !.returned = TRUE]

\* process(inputs, outputs, parameters)
process(t, channels, blockLen, r) ==
  returnTrue(refill(count(render(begin(t, channels, blockLen),
                                 0, channels, blockLen)), r))

\* ------------------------------------------------------- the state machine
This ==
  [noiseType |-> noiseType, bufferA |-> bufferA, bufferB |-> bufferB,
   activeBuffer |-> activeBuffer, inactiveBuffer |-> inactiveBuffer,
   index |-> index, fillPointer |-> fillPointer, frameCount |-> frameCount,
   pinkRows |-> pinkRows, pinkRunningSum |-> pinkRunningSum,
   pinkIndex |-> pinkIndex, brownLast |-> brownLast, blueLast |-> blueLast,
   violetLast |-> violetLast, port |-> port, output |-> output,
   returned |-> returned, obs |-> obs, ret |-> 0]

Becomes(t) ==
  /\ noiseType' = t.noiseType
  /\ bufferA' = t.bufferA
  /\ bufferB' = t.bufferB
  /\ activeBuffer' = t.activeBuffer
  /\ inactiveBuffer' = t.inactiveBuffer
  /\ index' = t.index
  /\ fillPointer' = t.fillPointer
  /\ frameCount' = t.frameCount
  /\ pinkRows' = t.pinkRows
  /\ pinkRunningSum' = t.pinkRunningSum
  /\ pinkIndex' = t.pinkIndex
  /\ brownLast' = t.brownLast
  /\ blueLast' = t.blueLast
  /\ violetLast' = t.violetLast
  /\ port' = t.port
  /\ output' = t.output
  /\ returned' = t.returned
  /\ obs' = t.obs

ObsInit ==
  [draws |-> 0,            \* white() calls so far
   consumedA |-> [j \in 1..bufferSize |-> FALSE],
   consumedB |-> [j \in 1..bufferSize |-> FALSE],
                           \* slot read since it was last written
   lastDraw |-> [buf |-> "A", at |-> 0, w |-> 0, stale |-> FALSE],
   staleReads |-> FALSE,   \* some white() call read a consumed slot
   swaps |-> 0,            \* swaps so far
   lastSwap |-> [marker |-> 0, ready |-> TRUE],
   unready |-> FALSE,      \* some swap activated a buffer with a consumed slot
   calls |-> <<>>,         \* the getSample() calls of the last process()
   writes |-> {},          \* the slots the last process() refilled
   applied |-> 0,          \* setNoiseType messages applied since then
   pending |-> <<>>,       \* the port when the last process() began
   posted |-> 0,           \* messages posted so far
   delivered |-> 0,        \* messages handled so far
   lastSet |-> "white"]    \* noiseType of the last setNoiseType handled

\* The WhoaNoise object of the page, whose constructor and loadState() left
\* kind as the current noise type: no audio context, no node
AppInit(kind) ==
  [currentNoiseType |-> kind,
   audioContext |-> FALSE,     \* this.audioContext is set
   noiseNode |-> FALSE,        \* this.noiseNode is set
   mediaSession |-> FALSE,     \* the media-control handlers are installed
   run |-> [dir |-> "none", n |-> 0, from |-> kind]]
                               \* the media-control actions since the last
                               \* other selection: direction, number, and the
                               \* current noise type before the first of them

\* The constructor, lines 13-26 and 41: the two buffers, filled, and the
\* cursor, the roles, the refill marker and the block counter
Prefetcher0 ==
  /\ \E ra \in Runs : bufferA = [j \in 1..bufferSize |-> random(ra, j - 1)]
  /\ \E rb \in Runs : bufferB = [j \in 1..bufferSize |-> random(rb, j - 1)]
  /\ index = 0
  /\ activeBuffer = "A"
  /\ inactiveBuffer = "B"
  /\ fillPointer = 0
  /\ frameCount = 0
  /\ port = <<>>
  /\ output = <<>>
  /\ returned = FALSE
  /\ obs = ObsInit

\* The constructor, lines 10 and 28-42: the kind and the generators' state
Generators0 ==
  /\ noiseType = "white"
  /\ pinkRows = [j \in 1..NumRows |-> 0]
  /\ pinkRunningSum = 0
  /\ pinkIndex = 0
  /\ brownLast = 0
  /\ blueLast = 0
  /\ violetLast = <<0, 0>>

\* The processor as its constructor leaves it
Constructed == Prefetcher0 /\ Generators0

\* The state after the constructor, under a host rendering channels x blockLen
Init ==
  /\ Constructed
  /\ host \in [channels : 1..MaxChannels, blockLen : 1..MaxBlockLen]
  /\ app = AppInit("white")

\* The host renders one block
Render(frames) ==
  /\ frameCount < frames
  /\ \E r \in Runs : Becomes(process(This, host.channels, host.blockLen, r))
  /\ UNCHANGED << host, app >>

\* The main thread posts a message to the processor's port
Post(posts) ==
  /\ obs.posted < posts
  /\ \E data \in Messages :
       port' = Append(port, [data |-> data, seq |-> obs.posted + 1])
  /\ obs' = [obs EXCEPT !.posted = @ + 1]
  /\ UNCHANGED << noiseType, bufferA, bufferB, activeBuffer, inactiveBuffer,
                  index, fillPointer, frameCount, pinkRows, pinkRunningSum,
                  pinkIndex, brownLast, blueLast, violetLast, host, output,
                  returned, app >>

\* The worklet's event loop hands the oldest pending message to onmessage
Deliver ==
  /\ port # <<>>
  /\ LET event == Head(port)
     IN Becomes([onmessage(This, event.data) EXCEPT
                   !.port = Tail(port),
                   !.obs.delivered = event.seq,
                   !.obs.lastSet = IF event.data.type = "setNoiseType"
                                     THEN event.data.noiseType ELSE @])
  /\ UNCHANGED << host, app >>

Process == Render(MaxFrames)
PostMessage == Post(MaxPosts)

Next == Process \/ PostMessage \/ Deliver

Spec == Init /\ [][Next]_vars

\* A long run of blocks, the horizon on which the refill of a drained buffer
\* competes with the draining of the other one.  The kind is posted when
\* the node is created, before the first block, as initAudio does, and is
\* handled whenever the worklet gets to it.
ProcessLong == Render(MaxFramesLong)
PostInitial == frameCount = 0 /\ Post(MaxPostsLong)

NextLong == ProcessLong \/ PostInitial \/ Deliver

SpecLong == Init /\ [][NextLong]_vars

\* ---------------------------------------------------------- the page
\* The WhoaNoise object (src/unnamed/part_001): the noise buttons, the
\* media-control handlers and initAudio().  The operators take and return u,
\* the record of the object (u.app) and of the node's port (u.port, with
\* u.posted messages posted so far).

\* setupMediaSession(), line 262
noiseTypes == << "white", "pink", "brown", "blue", "violet" >>

\* The noise buttons of the page, one for each data-type
Buttons == {noiseTypes[i] : i \in DOMAIN noiseTypes}

\* Array.prototype.indexOf, and the element at an index (from 0)
indexOf(array, x) ==
  IF \E i \in DOMAIN array : array[i] = x
    THEN (CHOOSE i \in DOMAIN array : array[i] = x) - 1
    ELSE -1

at(array, i) == IF i + 1 \in DOMAIN array THEN array[i + 1] ELSE "undefined"

\* this.noiseNode.port.postMessage(data)
postMessage(u, data) ==
  [u EXCEPT !.port = Append(@, [data |-> data, seq |-> u.posted + 1]),
            !.posted = @ + 1]

\* handleNoiseSelect(), lines 207-212
tellWorklet(u) ==
  IF u.app.noiseNode
    THEN postMessage(u, [type |-> "setNoiseType",
                         noiseType |-> u.app.currentNoiseType])
    ELSE u

\* handleNoiseSelect(event), the event being a click on the button of type
handleNoiseSelect(u, type) ==
  IF type = u.app.currentNoiseType
    THEN u
    ELSE tellWorklet([u EXCEPT !.app.currentNoiseType = type])

\* selectNoiseType(noiseType): click the button, if there is one
selectNoiseType(u, type) ==
  IF type \in Buttons THEN handleNoiseSelect(u, type) ELSE u

\* the 'previoustrack' handler
previoustrack(u) ==
  selectNoiseType(u,
    at(noiseTypes, (indexOf(noiseTypes, u.app.currentNoiseType) - 1
                      + Len(noiseTypes)) % Len(noiseTypes)))

\* Faulty 'nexttrack' handler: the index is not wrapped
nexttrack_noWrap(u) ==
  selectNoiseType(u,
    at(noiseTypes, indexOf(noiseTypes, u.app.currentNoiseType) + 1))

\* the 'nexttrack' handler
nexttrack(u) ==
  selectNoiseType(u,
    at(noiseTypes, (indexOf(noiseTypes, u.app.currentNoiseType) + 1)
                      % Len(noiseTypes)))

\* Faulty initAudio(): the node is created but the current noise type is not
\* sent to it
createNode_silent(u) == [u EXCEPT !.app.noiseNode = TRUE]

\* initAudio(), lines 87-93, after the worklet module was loaded
createNode(u) == tellWorklet([u EXCEPT !.app.noiseNode = TRUE])

\* u.app.run counts one more media-control action in direction dir; a was
\* the object before it
counted(u, dir, a) ==
  [u EXCEPT !.app.run =
     IF a.run.dir = dir
       THEN [a.run EXCEPT !.n = @ + 1]
       ELSE [dir |-> dir, n |-> 1, from |-> a.currentNoiseType]]

uncounted(u) ==
  [u EXCEPT !.app.run = [dir |-> "none", n |-> 0,
                         from |-> u.app.currentNoiseType]]

AppThis == [app |-> app, port |-> port, posted |-> obs.posted]

AppBecomes(u) ==
  /\ app' = u.app
  /\ port' = u.port
  /\ obs' = [obs EXCEPT !.posted = u.posted]
  /\ UNCHANGED << noiseType, bufferA, bufferB, activeBuffer, inactiveBuffer,
                  index, fillPointer, frameCount, pinkRows, pinkRunningSum,
                  pinkIndex, brownLast, blueLast, violetLast, host, output,
                  returned >>

\* The page is loaded: loadState() restores the noise type saved by an earlier
\* visit; the processor is in its constructor's state when its node is made
InitApp ==
  /\ Constructed
  /\ host = [channels |-> 1, blockLen |-> 1]
  /\ \E kind \in Buttons : app = AppInit(kind)

\* The user clicks a noise button
Click ==
  /\ obs.posted < MaxPostsApp
  /\ \E kind \in Buttons :
       AppBecomes(uncounted(handleNoiseSelect(AppThis, kind)))

\* start() got past its await of initAudio(), which returns at once when
\* the audio context exists, and calls setupMediaSession()
SetupMediaSession ==
  /\ app.audioContext
  /\ ~app.mediaSession
  /\ AppBecomes([AppThis EXCEPT !.app.mediaSession = TRUE])

\* The media controls' next-track and previous-track actions
NextTrack ==
  /\ app.mediaSession
  /\ obs.posted < MaxPostsApp
  /\ app.run.dir = "next" => app.run.n < MaxTracks
  /\ AppBecomes(counted(nexttrack(AppThis), "next", app))

PreviousTrack ==
  /\ app.mediaSession
  /\ obs.posted < MaxPostsApp
  /\ app.run.dir = "previous" => app.run.n < MaxTracks
  /\ AppBecomes(counted(previoustrack(AppThis), "previous", app))

\* initAudio() up to its await, lines 78-84
InitAudioBegin ==
  /\ ~app.audioContext
  /\ AppBecomes([AppThis EXCEPT !.app.audioContext = TRUE])

\* initAudio() resumes when the worklet module is loaded
InitAudioResume ==
  /\ app.audioContext
  /\ ~app.noiseNode
  /\ obs.posted < MaxPostsApp
  /\ AppBecomes(createNode(AppThis))

NextApp ==
  \/ Click
  \/ NextTrack
  \/ PreviousTrack
  \/ InitAudioBegin
  \/ InitAudioResume
  \/ SetupMediaSession
  \/ Deliver

SpecApp == InitApp /\ [][NextApp]_vars

\* ------------------------------------------------ the generators, alone
\* getSample() as a function of the generators' state and of the uniform
\* values in the buffer.  The state it is applied to is the constructor's, or
\* the one a long run of one generator on a constant uniform value leaves.

\* brownLast after one and after eight brown() calls that drew w
brownNext(last, w) == RoundDiv(50 * last + w, 51)

brownNext8(last, w) ==
  brownNext(brownNext(brownNext(brownNext(
    brownNext(brownNext(brownNext(brownNext(last, w), w), w), w), w), w), w), w)

\* brownLast after n times eight brown() calls that all drew w (once a call
\* leaves it as it was, so do all the calls after it)
RECURSIVE brownAfter(_, _, _)
brownAfter(n, last, w) ==
  IF n = 0 \/ brownNext(last, w) = last
    THEN last
    ELSE brownAfter(n - 1, brownNext8(last, w), w)

\* The pink state after n pink() calls that all drew w: call i replaced the
\* row of i's lowest set bit, so row j holds w once 2^j calls were made
pinkAfter(n, w) ==
  [pinkIndex |-> n % (pinkIndexMask + 1),
   pinkRows |-> [j \in 1..NumRows |-> IF 2 ^ (j - 1) <= n THEN w ELSE 0],
   brownLast |-> 0]

GeneratorStarts ==
  {pinkAfter(0, 0)}
    \cup {pinkAfter(n, w) : n \in {2 ^ (NumRows - 1) - 2, pinkIndexMask - 1},
                            w \in {One, -One}}
    \cup {[pinkAfter(0, 0) EXCEPT !.brownLast = brownAfter(LongRun, 0, w)] :
            w \in {One, -One}}

\* The kind is the one a setNoiseType message selected before the calls
InitGenerators ==
  /\ Prefetcher0
  /\ noiseType \in KnownTypes
  /\ \E g \in GeneratorStarts :
       /\ pinkIndex = g.pinkIndex
       /\ pinkRows = g.pinkRows
       /\ pinkRunningSum = SumSeq(g.pinkRows)
       /\ brownLast = g.brownLast
  /\ blueLast = 0
  /\ violetLast = <<0, 0>>
  /\ host = [channels |-> 1, blockLen |-> 1]
  /\ app = AppInit("white")

\* One getSample() call; obs.calls is then that call alone
Generate ==
  /\ obs.draws < MaxCalls
  /\ Becomes(getSample([This EXCEPT !.obs.calls = <<>>]))
  /\ UNCHANGED << host, app >>

\* A setNoiseType message is handled between two getSample() calls
Select ==
  /\ obs.applied < MaxSelects
  /\ \E kind \in KnownTypes :
       Becomes(onmessage(This, [type |-> "setNoiseType", noiseType |-> kind]))
  /\ UNCHANGED << host, app >>

NextGenerators == Generate \/ Select

SpecGenerators == InitGenerators /\ [][NextGenerators]_vars

\* ------------------------------------------------------------- the claims
Abs(x) == IF x < 0 THEN -x ELSE x

\* the sample x, a real number, in the unit of the generators' outputs
Level(num, den) == (num * OutScale * One) \div den

Calls == obs.calls
LastCall == obs.calls[Len(obs.calls)]

\* C1: from a fresh engine, white() call number bufferSize + 1 reads slot 0 of
\* bufferB, the buffer that was inactive at construction, returns the value
\* stored there, and leaves the read cursor at 1.
C1_SwapAfterCapacity ==
  \A k \in DOMAIN Calls :
    Calls[k].ord = bufferSize + 1 =>
      /\ Calls[k].buf = "B"
      /\ Calls[k].at = 0
      /\ Calls[k].w = bufferB[1]
      /\ Calls[k].after = 1

C1_Witness ==
  \E k \in DOMAIN Calls : Calls[k].ord = bufferSize + 1 /\ Calls[k].after = 1

\* C2: the active and the inactive buffer are always the two different
\* buffers A and B, and every slot process() refills belongs to the buffer
\* that is inactive, not the one that is active, when it is written.
C2_RefillOnlyInactive ==
  /\ activeBuffer # inactiveBuffer
  /\ {activeBuffer, inactiveBuffer} = {"A", "B"}
  /\ \A wr \in obs.writes : wr.buf = wr.inactive /\ wr.buf # wr.active

C2_Witness ==
  /\ obs.swaps >= 1
  /\ \E wr \in obs.writes : wr.buf = "A" /\ wr.active = "B"

\* C3 as stated: after process(), all channels hold the same value at every
\* sample position.
C3_ChannelsIdentical ==
  frameCount > 0 =>
    \A c1, c2 \in DOMAIN output : \A i \in DOMAIN output[c1] :
      output[c1][i].v = output[c2][i].v

\* C3 amended: process() calls getSample() once for every slot of every
\* channel, channel after channel; slot i of channel c holds the sample of
\* call number (c - 1) * blockLen + i of the block.
C3_OneSamplePerSlot ==
  frameCount > 0 =>
    /\ Len(Calls) = host.channels * host.blockLen
    /\ \A c \in 1..host.channels : \A i \in 1..host.blockLen :
         output[c][i].v = Calls[(c - 1) * host.blockLen + i].sample

C3_Witness ==
  /\ frameCount > 0
  /\ host.channels >= 2
  /\ \E i \in 1..host.blockLen : output[1][i].v # output[2][i].v

\* C4: all the samples of one process() call come from the generator of one
\* Noise Kind, also when a setNoiseType message is pending during the call.
C4_OneKindPerBlock ==
  \A k \in DOMAIN Calls : Calls[k].kind = Calls[1].kind

C4_Witness ==
  /\ Len(Calls) >= 2
  /\ obs.pending # <<>>
  /\ Head(obs.pending).data.type = "setNoiseType"
  /\ Head(obs.pending).data.noiseType # Calls[1].kind

\* C5 as stated: between two consecutive process() calls at most one
\* setNoiseType message is applied.
C5_AtMostOnePerBoundary == obs.applied <= 1

\* C5 amended: messages are handled in the order they were posted, each
\* between two process() calls, any number of them at one block boundary;
\* the Noise Kind is the one of the last setNoiseType message handled.
C5_AppliedInOrder ==
  /\ noiseType = obs.lastSet
  /\ obs.delivered + Len(port) = obs.posted
  /\ \A i \in DOMAIN port : port[i].seq = obs.delivered + i

C5_Witness ==
  /\ obs.applied >= 2
  /\ port = <<>>
  /\ noiseType # "white"

\* C6: every process() call writes every slot of every channel of the block
\* and returns true, whatever the Noise Kind, the cursor and the refill state.
C6_FullBlockAndTrue ==
  frameCount > 0 =>
    /\ returned = TRUE
    /\ DOMAIN output = 1..host.channels
    /\ \A c \in DOMAIN output :
         /\ DOMAIN output[c] = 1..host.blockLen
         /\ \A i \in DOMAIN output[c] : output[c][i].written

C6_Witness ==
  /\ frameCount > 0
  /\ noiseType = "bogus"
  /\ Calls[1].kind = "bogus"
  /\ \E k \in 1..(Len(Calls) - 1) : Calls[k].after = 0
  /\ obs.writes # {}

\* C7: while an unrecognized Noise Kind is selected, process() succeeds, every
\* sample is the value white() returned, unmodified, and the pink, brown,
\* blue and violet state is left unchanged.
C7_UnknownKindIsWhite ==
  [][(noiseType \notin KnownTypes /\ frameCount' # frameCount) =>
       /\ returned'
       /\ \A k \in DOMAIN obs'.calls :
            /\ obs'.calls[k].n = 1
            /\ obs'.calls[k].sample = OutScale * obs'.calls[k].w
       /\ UNCHANGED << noiseType, pinkRows, pinkRunningSum, pinkIndex,
                       brownLast, blueLast, violetLast >>]_vars

C7_Witness ==
  /\ noiseType = "bogus"
  /\ Calls # <<>>
  /\ Calls[1].kind = "bogus"
  /\ pinkIndex > 0
  /\ pinkRunningSum # 0

\* One refill period renders no more slots than one refill writes
Paced == RefillPeriod * host.channels * host.blockLen <= refillAmount

C9_PinkRunningSum == pinkRunningSum = SumSeq(pinkRows)

C9_Witness ==
  /\ pinkIndex >= 3
  /\ pinkRows[1] # 0
  /\ pinkRows[2] # 0
  /\ Calls # <<>>
  /\ Calls[1].kind \in {"brown", "blue", "violet"}

\* C10 as stated: each pink() call draws two values from the uniform source,
\* so the read cursor advances by 2 per pink sample.
C10_PinkDrawsTwo ==
  \A k \in DOMAIN Calls : Calls[k].kind = "pink" => Calls[k].n = 2

\* C10 amended: each pink() call draws one value from the uniform source,
\* advancing the read cursor by 1 (modulo swap); that value replaces the
\* selected row and is also the term added to the running sum for the
\* output, (running sum + the same draw) / 17.
C10_PinkDrawsOnce ==
  \A k \in DOMAIN Calls :
    Calls[k].kind = "pink" =>
      /\ Calls[k].n = 1
      /\ Calls[k].after = (Calls[k].at + 1) % bufferSize
      /\ k = Len(Calls) =>
           /\ Calls[k].sample =
                (OutScale \div 17) * (pinkRunningSum + Calls[k].w)
           /\ pinkIndex # 0 =>
                pinkRows[trailingZeros(pinkIndex, 0) + 1] = Calls[k].w

C10_Witness ==
  /\ Calls # <<>>
  /\ LastCall.kind = "pink"
  /\ pinkIndex >= 2
  /\ LastCall.w # 0
  /\ pinkRunningSum # LastCall.w

PinkState == << pinkRows, pinkRunningSum, pinkIndex >>

\* C11: the pink state (the 16 rows, the running sum, the counter) is zero at
\* construction and no message and no white, brown, blue or violet sample
\* changes it; so whatever was generated before, the first pink() call runs
\* with counter 1, finds no trailing zero and replaces row 0 by its draw w,
\* which makes its sample (w + w) / 17.
C11_PinkStartsFresh ==
  /\ [](frameCount = 0 =>
         /\ pinkIndex = 0
         /\ pinkRunningSum = 0
         /\ \A j \in 1..NumRows : pinkRows[j] = 0)
  /\ [][/\ frameCount' = frameCount => UNCHANGED PinkState
        /\ (frameCount' # frameCount /\ noiseType # "pink") =>
              UNCHANGED PinkState
        /\ (frameCount' # frameCount /\ noiseType = "pink" /\ pinkIndex = 0) =>
              /\ pinkIndex' = Len(obs'.calls)
              /\ obs'.calls[1].sample =
                   (OutScale \div 17) * 2 * obs'.calls[1].w
              /\ Len(obs'.calls) = 1 =>
                   /\ pinkRows' = [pinkRows EXCEPT ![1] = obs'.calls[1].w]
                   /\ pinkRunningSum' = obs'.calls[1].w]_vars

C11_Witness ==
  /\ Calls # <<>>
  /\ Calls[1].kind = "pink"
  /\ pinkIndex = Len(Calls)
  /\ obs.draws > Len(Calls)
  /\ obs.delivered >= 1
  /\ Calls[1].w # 0
  /\ pinkRows[1] # 0

\* C12 as stated: every violet() sample is within [-1, 1].
C12_VioletWithinOne ==
  \A k \in DOMAIN Calls :
    Calls[k].kind = "violet" => Abs(Calls[k].sample) <= Level(1, 1)

\* C12 amended: every violet() sample is within [-2, 2], whatever the uniform
\* inputs in [-1, 1] and whatever calls came before; the uniform inputs
\* 1, -1, 1 give the second difference 4 and the sample 2.
C12_VioletWithinTwo ==
  \A k \in DOMAIN Calls :
    Calls[k].kind = "violet" => Abs(Calls[k].sample) <= Level(2, 1)

C12_Witness ==
  \E k \in DOMAIN Calls :
    /\ Calls[k].kind = "violet"
    /\ Calls[k].w = One
    /\ violetLast[2] # 0
    /\ Calls[k].sample = Level(2, 1)

\* C13: whatever the uniform inputs in [-1, 1] and the calls before, every
\* white() and every pink() sample is within [-1, 1], every brown() sample
\* within [-3.5, 3.5] and every blue() sample within [-1.4, 1.4].
C13_SampleRanges ==
  \A k \in DOMAIN Calls :
    /\ Calls[k].kind = "white" => Abs(Calls[k].sample) <= Level(1, 1)
    /\ Calls[k].kind = "pink" => Abs(Calls[k].sample) <= Level(1, 1)
    /\ Calls[k].kind = "brown" => Abs(Calls[k].sample) <= Level(7, 2)
    /\ Calls[k].kind = "blue" => Abs(Calls[k].sample) <= Level(7, 5)

C13_Witness ==
  /\ Calls # <<>>
  /\ LastCall.kind = "blue"
  /\ Abs(LastCall.sample) = Level(7, 5)
  /\ Abs(pinkRunningSum) >= (NumRows - 1) * One
  /\ obs.applied >= 1

\* C14: whatever the uniform inputs in [-1, 1], alternating +1 and -1 among
\* them, and however many brown() calls were made, the brown accumulator is
\* within 1 / leak_gain = 50 in absolute value; it is in fact within [-1, 1],
\* the range of the inputs it averages, and does not drift without bound.
C14_BrownAccumulatorBounded ==
  /\ Abs(brownLast) <= 50 * One
  /\ Abs(brownLast) <= One

C14_Witness ==
  /\ Calls # <<>>
  /\ LastCall.kind = "brown"
  /\ obs.draws >= 3
  /\ 10 * Abs(brownLast) >= 9 * One
  /\ LastCall.w * brownLast < 0

\* The kind after each kind in the order white, pink, brown, blue, violet
Successor ==
  [kind \in KnownTypes |->
     CASE kind = "white" -> "pink"
       [] kind = "pink" -> "brown"
       [] kind = "brown" -> "blue"
       [] kind = "blue" -> "violet"
       [] kind = "violet" -> "white"]

\* The step is a media-control action in direction dir
Tracked(dir) == app' # app /\ app'.run # app.run /\ app'.run.dir = dir

\* The step posted setNoiseType for the new current noise type if the node
\* exists, and nothing otherwise
ToldWorklet ==
  port' = IF app.noiseNode
            THEN Append(port, [data |-> [type |-> "setNoiseType",
                                         noiseType |-> app'.currentNoiseType],
                               seq |-> obs.posted + 1])
            ELSE port

\* C15: when the current noise type is one of the five, next-track makes it
\* the successor in white, pink, brown, blue, violet (white after violet) and
\* previous-track the predecessor (violet before white); each posts
\* setNoiseType for the new type when the node exists; after five next (or
\* five previous) actions in a row the type is the one they started from.
C15_TrackCycle ==
  [][/\ (Tracked("next") /\ app.currentNoiseType \in KnownTypes) =>
          /\ app'.currentNoiseType = Successor[app.currentNoiseType]
          /\ ToldWorklet
     /\ (Tracked("previous") /\ app.currentNoiseType \in KnownTypes) =>
          /\ Successor[app'.currentNoiseType] = app.currentNoiseType
          /\ ToldWorklet
     /\ (app'.run.dir # "none" /\ app'.run.n = 5) =>
          app'.currentNoiseType = app'.run.from]_vars

C15_Witness ==
  /\ app.noiseNode
  /\ app.run.dir = "next"
  /\ app.run.n = 5
  /\ app.run.from = "blue"
  /\ Len(port) >= 2
  /\ port[Len(port)].data.noiseType = "blue"
  /\ port[Len(port) - 1].data.noiseType = "brown"

\* C16: the refill marker is always within 0..bufferSize.  Only a process()
\* call writes to the buffers, only at its end, only when its block count is
\* a multiple of RefillPeriod and the marker is below bufferSize; it then
\* writes exactly the slots marker .. marker + refillAmount - 1 of the
\* inactive buffer that exist and advances the marker by refillAmount.  Once
\* the marker is bufferSize, nothing is written until a swap has reset it.
C16_RefillDiscipline ==
  /\ [](fillPointer \in 0..bufferSize)
  /\ [][/\ frameCount' = frameCount =>
             UNCHANGED << bufferA, bufferB, fillPointer >>
        /\ (frameCount' # frameCount /\ obs'.writes # {}) =>
             /\ frameCount' % RefillPeriod = 0
             /\ \E marker \in 0..(bufferSize - 1) :
                  /\ \A wr \in obs'.writes :
                       wr.start = marker /\ wr.buf = inactiveBuffer'
                  /\ {wr.at : wr \in obs'.writes} =
                       {j \in 0..(bufferSize - 1) :
                          marker <= j /\ j < marker + refillAmount}
                  /\ fillPointer' = marker + refillAmount
        /\ (frameCount' # frameCount /\ obs'.writes = {}) =>
             /\ bufferA' = bufferA /\ bufferB' = bufferB
             /\ fillPointer' \in {fillPointer, 0}
             /\ frameCount' % RefillPeriod # 0 \/ fillPointer' = bufferSize
        /\ (fillPointer = bufferSize /\ obs'.swaps = obs.swaps) =>
             /\ UNCHANGED << bufferA, bufferB, fillPointer >>
             /\ frameCount' # frameCount => obs'.writes = {}]_vars

C16_Witness ==
  /\ frameCount > 0
  /\ frameCount % RefillPeriod = 0
  /\ fillPointer = bufferSize
  /\ obs.writes = {}
  /\ obs.swaps >= 1
  /\ obs.lastSwap.marker = bufferSize

\* C17 as stated: a refill only rewrites a drained buffer: none happens before
\* the first swap, and no slot is overwritten whose value was not consumed.
C17_OnlyDrainedRewritten ==
  \A wr \in obs.writes : wr.swaps >= 1 /\ wr.used

\* C17 amended: a fresh engine has both buffers populated and the marker at 0,
\* so the refills before the first swap rewrite slots of bufferB whose values
\* were never consumed; from the first swap on, every slot a refill
\* overwrites holds a value that was consumed since it was written.
C17_DrainedAfterFirstSwap ==
  \A wr \in obs.writes :
    /\ wr.swaps >= 1 => wr.used
    /\ wr.swaps = 0 => (~wr.used /\ wr.buf = "B")

C17_Witness ==
  /\ obs.swaps >= 2
  /\ \E wr \in obs.writes : wr.swaps >= 2 /\ wr.used /\ wr.buf = "B"

\* The row of call number n of pink(), n not a multiple of 2^16: row k is
\* the row of one call in every 2^(k+1), starting with call 2^k
RowOf(n) == CHOOSE k \in 0..(NumRows - 1) : n % 2 ^ (k + 1) = 2 ^ k

\* C18: a pink() call makes the counter (counter + 1) mod 2^16.  If the new
\* counter is not 0, the call replaces one row by its draw, the row whose
\* index is the number of trailing zero bits of the new counter (within
\* 0..15; row k once in every 2^(k+1) calls), and moves the running sum by
\* the difference; if the counter wraps to 0, the trailing-zero count is 16
\* and neither a row nor the running sum changes.
C18_PinkCounterAndRow ==
  [][(obs'.draws # obs.draws /\ noiseType = "pink") =>
       /\ pinkIndex' = (pinkIndex + 1) % 2 ^ 16
       /\ pinkIndex' # 0 =>
            /\ trailingZeros(pinkIndex', 0) = RowOf(pinkIndex')
            /\ pinkRows' =
                 [pinkRows EXCEPT ![RowOf(pinkIndex') + 1] = obs'.calls[1].w]
            /\ pinkRunningSum' =
                 (pinkRunningSum - pinkRows[RowOf(pinkIndex') + 1])
                   + obs'.calls[1].w
       /\ pinkIndex' = 0 =>
            /\ trailingZeros(pinkIndex', 0) = 16
            /\ UNCHANGED << pinkRows, pinkRunningSum >>]_vars

C18_Witness ==
  /\ Calls # <<>>
  /\ LastCall.kind = "pink"
  /\ LastCall.w = -One
  /\ pinkIndex = 0
  /\ pinkRows = [j \in 1..NumRows |-> One]
  /\ pinkRunningSum = NumRows * One

Other(b) == IF b = "A" THEN "B" ELSE "A"

\* The cursor and the active buffer as call k of the block found them
CursorAt(k) == IF k = 1 THEN index ELSE obs'.calls[k - 1].after

ActiveAt(k) ==
  IF k = 1
    THEN activeBuffer
    ELSE IF obs'.calls[k - 1].after = 0
           THEN Other(obs'.calls[k - 1].buf)
           ELSE obs'.calls[k - 1].buf

\* C19: every white(), brown(), blue() and violet() call reads one slot, the
\* one of the active buffer at the read cursor, and moves the cursor on by
\* one; when the cursor reaches bufferSize it is set to 0 and the roles of
\* the buffers are swapped.  Between calls the cursor is within
\* 0..bufferSize - 1.
C19_OneSlotPerCall ==
  /\ [](index \in 0..(bufferSize - 1))
  /\ [][frameCount' # frameCount =>
          \A k \in DOMAIN obs'.calls :
            obs'.calls[k].kind # "pink" =>
              /\ obs'.calls[k].n = 1
              /\ obs'.calls[k].at = CursorAt(k)
              /\ obs'.calls[k].buf = ActiveAt(k)
              /\ obs'.calls[k].w = Buffer(This, ActiveAt(k))[CursorAt(k) + 1]
              /\ obs'.calls[k].after = (CursorAt(k) + 1) % bufferSize
              /\ obs'.calls[k].kind \notin KnownTypes \cup {"white"} =>
                   obs'.calls[k].sample = OutScale * obs'.calls[k].w
              /\ k = Len(obs'.calls) =>
                   /\ index' = obs'.calls[k].after
                   /\ activeBuffer' = ActiveAt(k + 1)
                   /\ inactiveBuffer' = Other(ActiveAt(k + 1))]_vars

C19_Witness ==
  /\ obs.swaps = 1
  /\ activeBuffer = "B"
  /\ \E k \in 1..(Len(Calls) - 1) :
       /\ Calls[k].kind = "violet"
       /\ Calls[k].buf = "A"
       /\ Calls[k].at = bufferSize - 1
       /\ Calls[k].after = 0
       /\ Calls[k + 1].buf = "B"
       /\ Calls[k + 1].at = 0

\* C20: whatever the uniform inputs in [-1, 1], a brown() sample differs from
\* the brown() sample before it, which is 3.5 times the accumulator the call
\* found (0 for the first call), by at most leak_gain * 2 * 3.5 = 0.14.
C20_BrownStepBounded ==
  [][(obs'.draws # obs.draws /\ noiseType = "brown") =>
       /\ Abs(obs'.calls[1].sample - ((OutScale * 7) \div 2) * brownLast)
            <= Level(14, 100)
       /\ (Calls # <<>> /\ LastCall.kind = "brown") =>
            Abs(obs'.calls[1].sample - LastCall.sample) <= Level(14, 100)]_vars

C20_Witness ==
  /\ Calls # <<>>
  /\ LastCall.kind = "brown"
  /\ obs.draws = 2
  /\ obs.applied = 0
  /\ LastCall.w = -One
  /\ LastCall.sample >= Level(3, 1)
  /\ LastCall.sample <= Level(33, 10)

\* C21: however button clicks, next-track and previous-track actions and the
\* two halves of initAudio() interleave, selections made before the node
\* exists or while initAudio() awaits the worklet module included, once the
\* node exists and every posted message has been handled, in order, the
\* processor's noise type is the page's current noise type.
C21_KindsAgree ==
  (app.noiseNode /\ port = <<>> /\ obs.delivered = obs.posted) =>
    noiseType = app.currentNoiseType

C21_Witness ==
  /\ app.noiseNode
  /\ port = <<>>
  /\ obs.posted = 1
  /\ obs.delivered = 1
  /\ app.run.dir = "next"
  /\ app.run.n = 2
  /\ app.run.from = "white"
  /\ app.currentNoiseType = "brown"
  /\ noiseType = "brown"

====
